---------------------------- MODULE Spec2Model ----------------------------
(***************************************************************************)
(* Model of src/server.py (microshift-test-analyzer): the snapshot table   *)
(* built by parse_test_data, the cell parser extract_pipeline_results and  *)
(* the five query handlers.                                                *)
(*                                                                         *)
(* A Python str is a sequence of one-character strings, so that strip,     *)
(* split, upper, lower, substring search and the regular-expression search *)
(* of pandas' str.contains are computed character by character.            *)
(* An optional value (a DataFrame cell, a field of a pipeline result, a    *)
(* dict key) is a record [kind, s]: kind "str" with its characters,        *)
(* "None" (a missing cell, Python's None / NaN), "NaT" or "Timestamp"      *)
(* (with s its str() rendering).                                           *)
(***************************************************************************)
EXTENDS Integers, Sequences, FiniteSets, TLC

VARIABLES
    raw_data,   \* the snapshot returned by get_sheets_data for the last call
    op,         \* the tool that ran last ("init" before any call)
    args,       \* its arguments
    out         \* what it returned (or that it raised)

vars == <<raw_data, op, args, out>>

---------------------------------------------------------------------------
(* Bounds of the model.                                                    *)

MaxRows == 2      \* data rows of a regular snapshot
MaxLimit == 2     \* largest `limit` argument tried
MaxLines == 3     \* lines of a cell in the parser specification

---------------------------------------------------------------------------
(* Python values.                                                          *)

None == [kind |-> "None", s |-> <<>>]
NaT == [kind |-> "NaT", s |-> <<>>]
Str(s) == [kind |-> "str", s |-> s]
Timestamp(s) == [kind |-> "Timestamp", s |-> s]

\* pd.isna(value)
isna(v) == v.kind \in {"None", "NaT"}

\* The two renderings str() gives a missing cell: 'None' where the frame
\* keeps object columns, 'nan' where it infers a string dtype.
MissingRenderings == {<<"N", "o", "n", "e">>, <<"n", "a", "n">>}

\* str(value)
PyStr(v, na) ==
    CASE v.kind = "str" -> v.s
      [] v.kind = "Timestamp" -> v.s
      [] v.kind = "NaT" -> <<"N", "a", "T">>
      [] OTHER -> na

---------------------------------------------------------------------------
(* str methods.                                                            *)

Lowers == <<"a", "b", "c", "d", "e", "f", "g", "h", "i", "j", "k", "l", "m",
            "n", "o", "p", "q", "r", "s", "t", "u", "v", "w", "x", "y", "z">>
Uppers == <<"A", "B", "C", "D", "E", "F", "G", "H", "I", "J", "K", "L", "M",
            "N", "O", "P", "Q", "R", "S", "T", "U", "V", "W", "X", "Y", "Z">>
DigitChars == <<"0", "1", "2", "3", "4", "5", "6", "7", "8", "9">>

\* Position of c in seq, 0 when absent.
IndexOf(c, seq) ==
    IF \E i \in 1..Len(seq) : seq[i] = c
    THEN CHOOSE i \in 1..Len(seq) : seq[i] = c
    ELSE 0

UpperChar(c) == LET n == IndexOf(c, Lowers) IN IF n > 0 THEN Uppers[n] ELSE c
LowerChar(c) == LET n == IndexOf(c, Uppers) IN IF n > 0 THEN Lowers[n] ELSE c

\* str.upper(), str.lower()
upper(s) == [i \in 1..Len(s) |-> UpperChar(s[i])]
lower(s) == [i \in 1..Len(s) |-> LowerChar(s[i])]

IsSpace(c) == c \in {" ", "\t", "\n", "\r", "\f"}

RECURSIVE lstrip(_)
lstrip(s) == IF s # <<>> /\ IsSpace(Head(s)) THEN lstrip(Tail(s)) ELSE s

RECURSIVE rstrip(_)
rstrip(s) ==
    IF s # <<>> /\ IsSpace(s[Len(s)]) THEN rstrip(SubSeq(s, 1, Len(s) - 1)) ELSE s

\* str.strip()
strip(s) == rstrip(lstrip(s))

\* str.split(sep) for a one-character separator: the pieces between the
\* separators, empty pieces kept.
RECURSIVE split(_, _)
split(s, sep) ==
    LET n == IndexOf(sep, s) IN
    IF n = 0 THEN <<s>>
    ELSE <<SubSeq(s, 1, n - 1)>> \o split(SubSeq(s, n + 1, Len(s)), sep)

\* sub in s
Contains(s, sub) ==
    \E i \in 0..(Len(s) - Len(sub)) : SubSeq(s, i + 1, i + Len(sub)) = sub

\* [x for x in seq if keep(x)]
RECURSIVE SelectLines(_)
SelectLines(seq) ==
    IF seq = <<>> THEN <<>>
    ELSE IF strip(Head(seq)) # <<>>
         THEN <<strip(Head(seq))>> \o SelectLines(Tail(seq))
         ELSE SelectLines(Tail(seq))

\* A non-negative integer as decimal digits (the {i} of an f-string).
RECURSIVE Decimal(_)
Decimal(n) ==
    IF n < 10 THEN <<DigitChars[n + 1]>>
    ELSE Decimal(n \div 10) \o <<DigitChars[(n % 10) + 1]>>

IsDigits(s) == s # <<>> /\ \A i \in 1..Len(s) : IndexOf(s[i], DigitChars) > 0

RECURSIVE ToInt(_)
ToInt(s) ==
    IF s = <<>> THEN 0
    ELSE 10 * ToInt(SubSeq(s, 1, Len(s) - 1)) + (IndexOf(s[Len(s)], DigitChars) - 1)

\* n zero-padded to w digits (strftime's %Y, %m, %d).
RECURSIVE Pad(_, _)
Pad(s, w) == IF Len(s) >= w THEN s ELSE Pad(<<"0">> \o s, w)

---------------------------------------------------------------------------
(* Names the code spells out.                                              *)

s_date == <<"d", "a", "t", "e">>
s_parsed_date == <<"p", "a", "r", "s", "e", "d", "_", "d", "a", "t", "e">>
s_MicroShift_version ==
    <<"M", "i", "c", "r", "o", "S", "h", "i", "f", "t", " ",
      "v", "e", "r", "s", "i", "o", "n">>
s_unknown == <<"u", "n", "k", "n", "o", "w", "n">>
s_extra_col_ == <<"e", "x", "t", "r", "a", "_", "c", "o", "l", "_">>
s_No_reason_provided ==
    <<"N", "o", " ", "r", "e", "a", "s", "o", "n", " ",
      "p", "r", "o", "v", "i", "d", "e", "d">>
s_SUCCESS == <<"S", "U", "C", "C", "E", "S", "S">>
s_FAILURE == <<"F", "A", "I", "L", "U", "R", "E">>
s_FAILED == <<"F", "A", "I", "L", "E", "D">>
s_PASS == <<"P", "A", "S", "S">>
s_PASSED == <<"P", "A", "S", "S", "E", "D">>
s_x86_64 == <<"x", "8", "6", "_", "6", "4">>
s_aarch64 == <<"a", "a", "r", "c", "h", "6", "4">>
s_x86 == <<"x", "8", "6">>
s_RobotFramework ==
    <<"R", "o", "b", "o", "t", "F", "r", "a", "m", "e", "w", "o", "r", "k">>
s_Ginkgo == <<"G", "i", "n", "k", "g", "o">>
s_install == <<"i", "n", "s", "t", "a", "l", "l">>
s_upgrade == <<"u", "p", "g", "r", "a", "d", "e">>
s_ostree == <<"o", "s", "t", "r", "e", "e">>
s_rpm == <<"r", "p", "m">>
s_iso == <<"i", "s", "o">>

\* The first five columns are never parsed (i < 5 in extract_pipeline_results).
ReservedColumns == 5
\* row.iloc[4]: the version column by position (1-based here).
VersionPosition == 5
\* row.iloc[0]: the date column by position (1-based here).
DatePosition == 1

---------------------------------------------------------------------------
(* parse_test_data.                                                        *)

\* pd.to_datetime(text, format='%d/%m/%Y', errors='coerce') on one value:
\* a Timestamp when the whole text is day/month/4-digit year of a real
\* calendar day, NaT otherwise.
IsLeap(y) == (y % 4 = 0 /\ y % 100 # 0) \/ y % 400 = 0
DaysIn(m, y) ==
    IF m = 2 THEN (IF IsLeap(y) THEN 29 ELSE 28)
    ELSE IF m \in {4, 6, 9, 11} THEN 30 ELSE 31

to_datetime(text) ==
    LET parts == split(text, "/") IN
    IF /\ Len(parts) = 3
       /\ \A k \in 1..3 : IsDigits(parts[k])
       /\ Len(parts[1]) \in 1..2 /\ Len(parts[2]) \in 1..2 /\ Len(parts[3]) = 4
       /\ ToInt(parts[2]) \in 1..12
       /\ ToInt(parts[3]) >= 1
       /\ ToInt(parts[1]) \in 1..DaysIn(ToInt(parts[2]), ToInt(parts[3]))
    THEN Timestamp(parts[3] \o <<"-">> \o Pad(Decimal(ToInt(parts[2])), 2)
                   \o <<"-">> \o Pad(Decimal(ToInt(parts[1])), 2)
                   \o <<" ", "0", "0", ":", "0", "0", ":", "0", "0">>)
    ELSE NaT

\* df['date'].str.split('_').str[0] then to_datetime, for one cell.
parsed_date_of(cell) ==
    IF cell.kind = "str" THEN to_datetime(split(cell.s, "_")[1]) ELSE NaT

MaxOf(S) == IF S = {} THEN 0 ELSE CHOOSE n \in S : \A k \in S : k <= n

\* The number of columns pd.DataFrame(rows) gives: the longest row.
FrameWidth(rows) == MaxOf({Len(rows[i]) : i \in 1..Len(rows)})

\* One row of pd.DataFrame(rows): its cells, then None up to the width.
FrameRow(r, width) ==
    [c \in 1..width |-> IF c <= Len(r) THEN Str(r[c]) ELSE None]

\* [f'extra_col_{i}' for i in range(n)]; empty when n <= 0.
ExtraColumns(n) ==
    IF n <= 0 THEN <<>> ELSE [k \in 1..n |-> s_extra_col_ \o Decimal(k - 1)]

\* df[name] = column: replaces the column of that name, or appends one.
SetColumn(columns, rows, name, values) ==
    IF IndexOf(name, columns) > 0
    THEN [columns |-> columns,
          rows |-> [i \in 1..Len(rows) |->
                     [rows[i] EXCEPT ![IndexOf(name, columns)] = values[i]]]]
    ELSE [columns |-> Append(columns, name),
          rows |-> [i \in 1..Len(rows) |-> Append(rows[i], values[i])]]

\* The frame parse_test_data returns, or that it raised: assigning df.columns
\* a list whose length is not the frame's width raises ValueError.
parse_test_data(raw) ==
    IF Len(raw) < 1
    THEN [raised |-> FALSE, columns |-> <<>>, rows |-> <<>>]
    ELSE
      LET headers == raw[1]
          num_headers == Len(headers)
          data == Tail(raw)
          width == FrameWidth(data)
          rows == [i \in 1..Len(data) |-> FrameRow(data[i], width)]
          columns == headers \o ExtraColumns(width - num_headers)
          dates == [i \in 1..Len(data) |->
                     IF IndexOf(s_date, columns) > 0
                     THEN parsed_date_of(rows[i][IndexOf(s_date, columns)])
                     ELSE NaT]
          framed == SetColumn(columns, rows, s_parsed_date, dates)
      IN IF Len(columns) # width
         THEN [raised |-> TRUE, columns |-> <<>>, rows |-> <<>>]
         ELSE [raised |-> FALSE, columns |-> framed.columns, rows |-> framed.rows]

\* df.empty: an axis of length 0.
empty(df) == Len(df.columns) = 0 \/ Len(df.rows) = 0

\* row.get(name, default)
RowGet(df, i, name, default) ==
    IF IndexOf(name, df.columns) > 0
    THEN df.rows[i][IndexOf(name, df.columns)]
    ELSE default

\* row.iloc[p] if len(row) > p else 'unknown' (p given 1-based)
RowAt(df, i, p) ==
    IF Len(df.rows[i]) >= p THEN df.rows[i][p] ELSE Str(s_unknown)

---------------------------------------------------------------------------
(* extract_pipeline_results.                                               *)

StatusWords == {s_SUCCESS, s_FAILURE, s_FAILED, s_PASS, s_PASSED}
Architectures == {s_x86_64, s_aarch64, s_x86}
Frameworks == {s_RobotFramework, s_Ginkgo}
TestTypeWords == {s_install, s_upgrade, s_ostree, s_rpm, s_iso}

\* status = line.upper(), then FAILED/FAILURE -> FAILURE, the rest -> SUCCESS
NormalizeStatus(word) ==
    IF word \in {s_FAILED, s_FAILURE} THEN s_FAILURE
    ELSE IF word \in {s_PASS, s_PASSED, s_SUCCESS} THEN s_SUCCESS
    ELSE word

IsTestType(line) == LET low == lower(line) IN \E w \in TestTypeWords : Contains(low, w)

\* The fields of a result before the first line is read.
NoFields ==
    [status |-> None, architecture |-> None, test_type |-> None,
     framework |-> None, failure_reason |-> None]

\* Mutant: any status set so far lets a line through as the reason.
ReasonApplies_AnyStatus(f, j) == f.status # None /\ j > 0

\* The last branch of the if/elif chain: the line is kept as the failure
\* reason when status is FAILURE at this point of the scan and j > 0.
ReasonApplies(f, j) == f.status = Str(s_FAILURE) /\ j > 0

\* One turn of `for j, line in enumerate(lines)`; j counts from 0.
ClassifyLine(f, line, j) ==
    LET word == upper(line) IN
    IF word \in StatusWords
    THEN [f EXCEPT !.status = Str(NormalizeStatus(word))]
    ELSE IF line \in Architectures THEN [f EXCEPT !.architecture = Str(line)]
    ELSE IF line \in Frameworks THEN [f EXCEPT !.framework = Str(line)]
    ELSE IF IsTestType(line) THEN [f EXCEPT !.test_type = Str(line)]
    ELSE IF ReasonApplies(f, j) THEN [f EXCEPT !.failure_reason = Str(line)]
    ELSE f

\* The fields after the first n lines.
RECURSIVE ScanLines(_, _)
ScanLines(lines, n) ==
    IF n = 0 THEN NoFields
    ELSE ClassifyLine(ScanLines(lines, n - 1), lines[n], n - 1)

\* lines = [line.strip() for line in value_str.split('\n') if line.strip()]
LinesOf(value_str) == SelectLines(split(value_str, "\n"))

\* The body of the column loop for one (col_name, value): no result for a
\* reserved position, a missing value or a blank one, else one result.
\* i counts from 0.  (str() is only reached for a value that is not NA.)
CellResults(i, col_name, value) ==
    IF i < ReservedColumns \/ isna(value) \/ strip(PyStr(value, <<>>)) = <<>>
    THEN <<>>
    ELSE LET value_str == strip(PyStr(value, <<>>))
             lines == LinesOf(value_str)
             f == ScanLines(lines, Len(lines))
         IN IF lines = <<>> THEN <<>>
            ELSE <<[pipeline_name |-> col_name,
                    status |-> f.status,
                    architecture |-> f.architecture,
                    test_type |-> f.test_type,
                    framework |-> f.framework,
                    failure_reason |-> f.failure_reason,
                    raw_value |-> value_str]>>

\* The results of the first n columns of row r of df.
RECURSIVE ExtractUpTo(_, _, _)
ExtractUpTo(df, r, n) ==
    IF n = 0 THEN <<>>
    ELSE ExtractUpTo(df, r, n - 1)
         \o CellResults(n - 1, df.columns[n], df.rows[r][n])

extract_pipeline_results(df, r) == ExtractUpTo(df, r, Len(df.columns))

\* [p for p in seq if p['status'] == 'FAILURE']
RECURSIVE Failed(_)
Failed(seq) ==
    IF seq = <<>> THEN <<>>
    ELSE IF Head(seq).status = Str(s_FAILURE)
         THEN <<Head(seq)>> \o Failed(Tail(seq))
         ELSE Failed(Tail(seq))

---------------------------------------------------------------------------
(* A Python dict: its items in insertion order.                            *)

HasKey(d, k) == \E n \in 1..Len(d) : d[n].key = k
KeyIndex(d, k) == CHOOSE n \in 1..Len(d) : d[n].key = k
ValueOf(d, k) == d[KeyIndex(d, k)].value
\* d[k] = v
Store(d, k, v) ==
    IF HasKey(d, k) THEN [d EXCEPT ![KeyIndex(d, k)].value = v]
    ELSE Append(d, [key |-> k, value |-> v])
\* if k not in d: d[k] = 0; d[k] += 1
Count(d, k) == Store(d, k, IF HasKey(d, k) THEN ValueOf(d, k) + 1 ELSE 1)

---------------------------------------------------------------------------
(* Results the handlers share.                                             *)

\* `if x:` for an optional str
Truthy(v) == v.kind = "str" /\ v.s # <<>>

\* return "No data available"
NoData == [status |-> "no_data"]
\* parse_test_data raised; the handler does not catch it
Raised == [status |-> "raised"]

\* dict.get(field, default) on a record
get(rec, field, default) == IF field \in DOMAIN rec THEN rec[field] ELSE default

---------------------------------------------------------------------------
(* get_failed_pipelines_by_version.                                        *)

\* Series.str.contains(pat) searches a regular expression.  The patterns
\* modelled are made of literal characters, '.' (any character but a line
\* break) and a postfix '+' (one or more); a pattern starting with '+' does
\* not compile (re.error: nothing to repeat).
AtomMatches(a, c) == IF a = "." THEN c # "\n" ELSE a = c

RECURSIVE MatchHere(_, _)
MatchHere(p, s) ==
    IF p = <<>> THEN TRUE
    ELSE IF Len(p) >= 2 /\ p[2] = "+"
         THEN \E n \in 1..Len(s) :
                 /\ \A k \in 1..n : AtomMatches(p[1], s[k])
                 /\ MatchHere(SubSeq(p, 3, Len(p)), SubSeq(s, n + 1, Len(s)))
         ELSE /\ s # <<>>
              /\ AtomMatches(p[1], s[1])
              /\ MatchHere(Tail(p), Tail(s))

re_compiles(p) == p # <<>> => p[1] # "+"
re_search(p, s) == \E i \in 0..Len(s) : MatchHere(p, SubSeq(s, i + 1, Len(s)))

\* One element of df[col].astype(str).str.contains(version, na=False): an
\* object column renders a missing cell as 'None' and searches it; a string
\* column keeps it missing, and na=False answers False.
ContainsVersion(cell, version, na) ==
    IF cell.kind = "None"
    THEN na = <<"N", "o", "n", "e">> /\ re_search(version, na)
    ELSE re_search(version, PyStr(cell, na))

\* The rows df[mask] keeps, in row order, among rows n..Len(df.rows).
RECURSIVE MaskedFrom(_, _, _, _)
MaskedFrom(df, version, na, n) ==
    IF n > Len(df.rows) THEN <<>>
    ELSE (IF ContainsVersion(RowGet(df, n, s_MicroShift_version, None), version, na)
          THEN <<n>> ELSE <<>>)
         \o MaskedFrom(df, version, na, n + 1)

AllRows(df) == [n \in 1..Len(df.rows) |-> n]

\* Mutant: the scan stops one row late.
LimitReached_OneLate(rows_processed, limit) == rows_processed > limit

\* if rows_processed >= limit: break
LimitReached(rows_processed, limit) == rows_processed >= limit

\* results[microshift_version] after a row with failures
GroupAfter(results, mv, failed, date) ==
    LET old == IF HasKey(results, mv) THEN ValueOf(results, mv)
               ELSE [version |-> mv, total_failures |-> 0,
                     failed_pipelines |-> <<>>, test_dates |-> <<>>]
    IN Store(results, mv,
             [version |-> mv,
              total_failures |-> old.total_failures + Len(failed),
              failed_pipelines |-> old.failed_pipelines \o failed,
              test_dates |-> Append(old.test_dates, date)])

\* The loop body for row r.  `scanned` records the rows the body ran on.
ScanRow(df, acc, r) ==
    LET microshift_version == RowGet(df, r, s_MicroShift_version, Str(s_unknown))
        failed_pipelines == Failed(extract_pipeline_results(df, r))
    IN [results |-> IF failed_pipelines # <<>>
                    THEN GroupAfter(acc.results, microshift_version, failed_pipelines,
                                    RowGet(df, r, s_date, Str(s_unknown)))
                    ELSE acc.results,
        rows_processed |-> acc.rows_processed + 1,
        scanned |-> Append(acc.scanned, r)]

\* for _, row in filtered_df.iterrows(), from the rows still to visit
RECURSIVE ScanRows(_, _, _, _)
ScanRows(df, todo, limit, acc) ==
    IF todo = <<>> \/ LimitReached(acc.rows_processed, limit) THEN acc
    ELSE ScanRows(df, Tail(todo), limit, ScanRow(df, acc, Head(todo)))

get_failed_pipelines_by_version(raw, version, limit, na) ==
    LET df == parse_test_data(raw) IN
    IF df.raised THEN Raised
    ELSE IF empty(df) THEN NoData
    ELSE IF Truthy(version) /\ IndexOf(s_MicroShift_version, df.columns) = 0
    THEN [status |-> "error", error |-> "column_not_found"]
    ELSE IF Truthy(version) /\ ~re_compiles(version.s)
    THEN [status |-> "error", error |-> "during_filtering"]
    ELSE
      LET filtered_df == IF Truthy(version) THEN MaskedFrom(df, version.s, na, 1)
                         ELSE AllRows(df)
          acc == ScanRows(df, filtered_df, limit,
                          [results |-> <<>>, rows_processed |-> 0, scanned |-> <<>>])
      IN [status |-> "ok",
          results |-> acc.results,
          filtered_df |-> filtered_df,
          rows_processed |-> acc.rows_processed,
          scanned |-> acc.scanned]

---------------------------------------------------------------------------
(* get_failure_summary.                                                    *)

\* failure['microshift_version'] = ...; failure['date'] = ...
Annotated(failure, mv, date) ==
    [pipeline_name |-> failure.pipeline_name,
     status |-> failure.status,
     architecture |-> failure.architecture,
     test_type |-> failure.test_type,
     framework |-> failure.framework,
     failure_reason |-> failure.failure_reason,
     raw_value |-> failure.raw_value,
     microshift_version |-> mv,
     date |-> date]

\* all_failures after the first n rows
RECURSIVE AllFailures(_, _)
AllFailures(df, n) ==
    IF n = 0 THEN <<>>
    ELSE LET failed == Failed(extract_pipeline_results(df, n)) IN
         AllFailures(df, n - 1)
         \o [k \in 1..Len(failed) |->
               Annotated(failed[k], RowAt(df, n, VersionPosition),
                         RowAt(df, n, DatePosition))]

\* The key a failure is tallied under.
GroupKey(failure, group_by) ==
    IF group_by = "version" THEN failure.microshift_version
    ELSE IF group_by = "pipeline" THEN Str(failure.pipeline_name)
    ELSE get(failure, "failure_reason", Str(s_No_reason_provided))

RECURSIVE Tally(_, _, _)
Tally(failures, group_by, n) ==
    IF n = 0 THEN <<>>
    ELSE Count(Tally(failures, group_by, n - 1), GroupKey(failures[n], group_by))

get_failure_summary(raw, group_by) ==
    LET df == parse_test_data(raw) IN
    IF df.raised THEN Raised
    ELSE IF empty(df) THEN NoData
    ELSE
      LET all_failures == AllFailures(df, Len(df.rows)) IN
      [status |-> "ok",
       total_test_runs |-> Len(df.rows),
       group_by |-> group_by,
       summary_data |-> IF group_by \in {"version", "pipeline", "reason"}
                        THEN Tally(all_failures, group_by, Len(all_failures))
                        ELSE <<>>,
       total_failures |-> Len(all_failures)]

---------------------------------------------------------------------------
(* search_failure_reasons.                                                 *)

\* The matches one row adds.
RECURSIVE RowMatches(_, _, _, _, _)
RowMatches(df, r, results, search_term, n) ==
    IF n = 0 THEN <<>>
    ELSE LET result == results[n]
             failure_reason == get(result, "failure_reason", Str(<<>>))
         IN RowMatches(df, r, results, search_term, n - 1)
            \o (IF /\ result.status = Str(s_FAILURE)
                   /\ Truthy(failure_reason)
                   /\ Contains(lower(failure_reason.s), lower(search_term))
                THEN <<[date |-> RowAt(df, r, DatePosition),
                        microshift_version |-> RowAt(df, r, VersionPosition),
                        pipeline |-> result.pipeline_name,
                        failure_reason |-> failure_reason,
                        architecture |-> result.architecture,
                        test_type |-> result.test_type,
                        framework |-> result.framework]>>
                ELSE <<>>)

\* if version and version not in str(microshift_version): continue
SkippedByVersion(df, r, version, na) ==
    Truthy(version) /\ ~Contains(PyStr(RowAt(df, r, VersionPosition), na), version.s)

RECURSIVE SearchRows(_, _, _, _, _)
SearchRows(df, search_term, version, na, n) ==
    IF n = 0 THEN <<>>
    ELSE SearchRows(df, search_term, version, na, n - 1)
         \o (IF SkippedByVersion(df, n, version, na) THEN <<>>
             ELSE LET results == extract_pipeline_results(df, n) IN
                  RowMatches(df, n, results, search_term, Len(results)))

search_failure_reasons(raw, search_term, version, na) ==
    LET df == parse_test_data(raw) IN
    IF df.raised THEN Raised
    ELSE IF empty(df) THEN NoData
    \* `kept` records the rows the loop did not `continue` past.
    ELSE [status |-> "ok",
          kept |-> SelectSeq(AllRows(df),
                             LAMBDA r : ~SkippedByVersion(df, r, version, na)),
          matching_failures |-> SearchRows(df, search_term, version, na, Len(df.rows))]

---------------------------------------------------------------------------
(* get_version_comparison.                                                 *)

\* {'total_tests': 0, 'failures': 0, 'successes': 0, 'pipelines': {}}
NewData == [total_tests |-> 0, failures |-> 0, successes |-> 0, pipelines |-> <<>>]
NewPipeline == [total |-> 0, failures |-> 0, successes |-> 0]

\* Mutant: version2 is tested before version1.
TargetSide_Version2First(version1, version2, mv) ==
    IF Contains(mv, version2) THEN 2
    ELSE IF Contains(mv, version1) THEN 1
    ELSE 0

\* The if/elif/else choosing target_data for a row whose version renders as
\* mv: 1 for version1_data, 2 for version2_data, 0 for `continue`.
TargetSide(version1, version2, mv) ==
    IF Contains(mv, version1) THEN 1
    ELSE IF Contains(mv, version2) THEN 2
    ELSE 0

\* The body of `for result in pipeline_results`.
TallyResult(data, result) ==
    LET pipeline == result.pipeline_name
        status == result.status
        old == IF HasKey(data.pipelines, pipeline) THEN ValueOf(data.pipelines, pipeline)
               ELSE NewPipeline
    IN [total_tests |-> data.total_tests + 1,
        failures |-> data.failures + (IF status = Str(s_FAILURE) THEN 1 ELSE 0),
        successes |-> data.successes
                      + (IF status = Str(s_SUCCESS) THEN 1 ELSE 0),
        pipelines |-> Store(data.pipelines, pipeline,
            [total |-> old.total + 1,
             failures |-> old.failures + (IF status = Str(s_FAILURE) THEN 1 ELSE 0),
             successes |-> old.successes
                           + (IF status = Str(s_SUCCESS) THEN 1 ELSE 0)])]

RECURSIVE TallyResults(_, _, _)
TallyResults(data, results, n) ==
    IF n = 0 THEN data
    ELSE TallyResult(TallyResults(data, results, n - 1), results[n])

\* Both sides, and the side each row went to, after the first n rows.
RECURSIVE CompareRows(_, _, _, _, _)
CompareRows(df, version1, version2, na, n) ==
    IF n = 0 THEN [d1 |-> NewData, d2 |-> NewData, sides |-> <<>>]
    ELSE LET before == CompareRows(df, version1, version2, na, n - 1)
             side == TargetSide(version1, version2,
                                PyStr(RowAt(df, n, VersionPosition), na))
             results == extract_pipeline_results(df, n)
         IN [d1 |-> IF side = 1 THEN TallyResults(before.d1, results, Len(results))
                    ELSE before.d1,
             d2 |-> IF side = 2 THEN TallyResults(before.d2, results, Len(results))
                    ELSE before.d2,
             sides |-> Append(before.sides, side)]

\* (count / total) * 100 as the fraction num/den; 0 when total is 0.  For
\* the counts a sheet holds, two such doubles compare as the fractions do.
Rate(count, total) ==
    IF total > 0 THEN [num |-> count * 100, den |-> total] ELSE [num |-> 0, den |-> 1]

\* Mutant: a tie counts as lower.
RateLess_OrEqual(a, b) == a.num * b.den <= b.num * a.den

\* a < b on two rates
RateLess(a, b) == a.num * b.den < b.num * a.den

\* version1 if version1_data['failure_rate'] < version2_data['failure_rate'] else version2
BetterPerformer(version1, version2, rate1, rate2) ==
    IF RateLess(rate1, rate2) THEN version1 ELSE version2

WithRates(data) ==
    [total_tests |-> data.total_tests, failures |-> data.failures,
     successes |-> data.successes, pipelines |-> data.pipelines,
     failure_rate |-> Rate(data.failures, data.total_tests),
     success_rate |-> Rate(data.successes, data.total_tests)]

get_version_comparison(raw, version1, version2, na) ==
    LET df == parse_test_data(raw) IN
    IF df.raised THEN Raised
    ELSE IF empty(df) THEN NoData
    ELSE
      LET scan == CompareRows(df, version1, version2, na, Len(df.rows))
          version1_data == WithRates(scan.d1)
          version2_data == WithRates(scan.d2)
      IN [status |-> "ok",
          version1_data |-> version1_data,
          version2_data |-> version2_data,
          sides |-> scan.sides,
          better_performer |-> BetterPerformer(version1, version2,
                                               version1_data.failure_rate,
                                               version2_data.failure_rate)]

---------------------------------------------------------------------------
(* get_pipeline_failure_trends.                                            *)

NewTrend ==
    [total_runs |-> 0, failures |-> 0, success |-> 0,
     failure_rate |-> Rate(0, 0), recent_failures |-> <<>>]

\* The body of `for result in pipeline_results` for row r.
TrendResult(df, r, trends, result, pipeline_name) ==
    IF Truthy(pipeline_name) /\ ~Contains(result.pipeline_name, pipeline_name.s)
    THEN trends
    ELSE LET pipeline == result.pipeline_name
             old == IF HasKey(trends, pipeline) THEN ValueOf(trends, pipeline)
                    ELSE NewTrend
             failed == result.status = Str(s_FAILURE)
         IN Store(trends, pipeline,
              [total_runs |-> old.total_runs + 1,
               failures |-> old.failures + (IF failed THEN 1 ELSE 0),
               success |-> old.success
                           + (IF result.status = Str(s_SUCCESS) THEN 1 ELSE 0),
               failure_rate |-> old.failure_rate,
               recent_failures |->
                   IF failed
                   THEN Append(old.recent_failures,
                               [date |-> RowAt(df, r, DatePosition),
                                version |-> RowAt(df, r, VersionPosition),
                                reason |-> get(result, "failure_reason",
                                               Str(s_No_reason_provided))])
                   ELSE old.recent_failures])

RECURSIVE TrendResults(_, _, _, _, _, _)
TrendResults(df, r, trends, results, pipeline_name, n) ==
    IF n = 0 THEN trends
    ELSE TrendResult(df, r, TrendResults(df, r, trends, results, pipeline_name, n - 1),
                     results[n], pipeline_name)

RECURSIVE TrendRows(_, _, _)
TrendRows(df, pipeline_name, n) ==
    IF n = 0 THEN <<>>
    ELSE LET results == extract_pipeline_results(df, n) IN
         TrendResults(df, n, TrendRows(df, pipeline_name, n - 1), results,
                      pipeline_name, Len(results))

\* for pipeline in trends: failure_rate = failures / total * 100
WithFailureRates(trends) ==
    [n \in 1..Len(trends) |->
       [key |-> trends[n].key,
        value |-> [trends[n].value EXCEPT
                     !.failure_rate = IF trends[n].value.total_runs > 0
                                      THEN Rate(trends[n].value.failures,
                                                trends[n].value.total_runs)
                                      ELSE @]]]

get_pipeline_failure_trends(raw, pipeline_name, days) ==
    LET df == parse_test_data(raw) IN
    IF df.raised THEN Raised
    ELSE IF empty(df) THEN NoData
    ELSE [status |-> "ok",
          trends |-> WithFailureRates(TrendRows(df, pipeline_name, Len(df.rows)))]

---------------------------------------------------------------------------
(* The snapshots and arguments tried.                                      *)

\* '\n'.join(lines)
RECURSIVE Join(_)
Join(lines) ==
    IF lines = <<>> THEN <<>>
    ELSE IF Len(lines) = 1 THEN lines[1]
    ELSE lines[1] \o <<"\n">> \o Join(Tail(lines))

t_timeout == <<"b", "o", "o", "t", " ", "t", "i", "m", "e", "o", "u", "t">>
t_leak == <<"l", "e", "a", "k">>
t_pipeA == <<"p", "i", "p", "e", "A">>

d_parses == <<"0", "1", "/", "0", "6", "/", "2", "0", "2", "5", "_", "x">>
d_other == <<"0", "1", "/", "0", "6", "_", "x">>

v_4_15 == <<"4", ".", "1", "5">>
v_4_16 == <<"4", ".", "1", "6">>
v_4x15 == <<"4", "x", "1", "5">>
v_4_1 == <<"4", ".", "1">>
v_plus == <<"+">>

c_failure_reason == Join(<<s_FAILURE, s_x86_64, t_timeout>>)
c_success == Join(<<s_SUCCESS, s_x86_64, s_Ginkgo>>)
c_failed == <<"f", "a", "i", "l", "e", "d">>
c_blank == <<" ">>
c_extra == Join(<<s_FAILURE, t_leak>>)

Headers ==
    { <<s_date, <<"a">>, <<"b">>, <<"c">>, s_MicroShift_version, t_pipeA>>,
      <<s_date, s_MicroShift_version>>,
      <<>> }

DataRows ==
    { <<d_parses, <<>>, <<>>, <<>>, v_4_15, c_failure_reason>>,
      <<d_other, <<>>, <<>>, <<>>, v_4_16, c_success>>,
      <<d_other, <<>>, <<>>, <<>>, v_4x15, c_failed>>,
      <<d_other, <<>>, <<>>, <<>>, v_4_16, c_blank, c_extra>>,
      <<d_parses>> }

RowSeqs == UNION {[1..n -> DataRows] : n \in 0..MaxRows}

\* What get_sheets_data may return: nothing at all, or a header row and up
\* to MaxRows data rows.
Snapshots == {<<>>} \cup {<<h>> \o rows : h \in Headers, rows \in RowSeqs}

VersionFilters == {None, Str(v_4_15), Str(v_plus)}
Versions == {v_4_15, v_4_1, v_4_16}
SearchTerms == {<<"T", "i", "m", "e">>}
PipelineFilters == {None, Str(<<"p", "i", "p", "e">>), Str(<<"c", "o", "l">>)}
GroupBys == {"version", "pipeline", "reason", "other"}
Limits == 0..MaxLimit
DefaultDays == 30

\* Lines of a pipeline cell for the parser specification.
LineVocabulary ==
    { s_FAILURE, <<"f", "a", "i", "l", "e", "d">>, <<"P", "a", "s", "s", "e", "d">>,
      s_x86_64, <<"R", "P", "M">>, <<"t", "i", "m", "e", "o", "u", "t">>,
      <<" ", "o", "o", "m">>, <<>> }

CellTexts == {Join(ls) : ls \in UNION {[1..n -> LineVocabulary] : n \in 1..MaxLines}}

CellSnapshots ==
    { << <<s_date, <<"a">>, <<"b">>, <<"c">>, s_MicroShift_version, t_pipeA>>,
         <<d_other, <<>>, <<>>, <<>>, v_4_15, cell>> >> : cell \in CellTexts }

---------------------------------------------------------------------------
(* The tools.  The server waits for a call (op = "init"); a call fetches a  *)
(* snapshot (get_sheets_data), parses it and computes its answer; the      *)
(* answer is sent and nothing is kept for the next call.                   *)

Init ==
    /\ raw_data = <<>>
    /\ op = "init"
    /\ args = [na |-> <<>>]
    /\ out = [status |-> "none"]

FailuresByVersion ==
    \E snapshot \in Snapshots, version \in VersionFilters, limit \in Limits,
       na \in MissingRenderings :
        /\ op = "init"
        /\ raw_data' = snapshot
        /\ op' = "get_failed_pipelines_by_version"
        /\ args' = [version |-> version, limit |-> limit, na |-> na]
        /\ out' = get_failed_pipelines_by_version(snapshot, version, limit, na)

FailureSummary ==
    \E snapshot \in Snapshots, group_by \in GroupBys :
        /\ op = "init"
        /\ raw_data' = snapshot
        /\ op' = "get_failure_summary"
        /\ args' = [group_by |-> group_by, na |-> <<>>]
        /\ out' = get_failure_summary(snapshot, group_by)

SearchFailureReasons ==
    \E snapshot \in Snapshots, search_term \in SearchTerms,
       version \in VersionFilters, na \in MissingRenderings :
        /\ op = "init"
        /\ raw_data' = snapshot
        /\ op' = "search_failure_reasons"
        /\ args' = [search_term |-> search_term, version |-> version, na |-> na]
        /\ out' = search_failure_reasons(snapshot, search_term, version, na)

VersionComparison ==
    \E snapshot \in Snapshots, version1 \in Versions, version2 \in Versions,
       na \in MissingRenderings :
        /\ op = "init"
        /\ raw_data' = snapshot
        /\ op' = "get_version_comparison"
        /\ args' = [version1 |-> version1, version2 |-> version2, na |-> na]
        /\ out' = get_version_comparison(snapshot, version1, version2, na)

PipelineFailureTrends ==
    \E snapshot \in Snapshots, pipeline_name \in PipelineFilters :
        /\ op = "init"
        /\ raw_data' = snapshot
        /\ op' = "get_pipeline_failure_trends"
        /\ args' = [pipeline_name |-> pipeline_name, days |-> DefaultDays, na |-> <<>>]
        /\ out' = get_pipeline_failure_trends(snapshot, pipeline_name, DefaultDays)

\* The answer is returned to the client; the server waits again.
Reply ==
    /\ op # "init"
    /\ raw_data' = <<>>
    /\ op' = "init"
    /\ args' = [na |-> <<>>]
    /\ out' = [status |-> "none"]

Next ==
    \/ Reply
    \/ FailuresByVersion
    \/ FailureSummary
    \/ SearchFailureReasons
    \/ VersionComparison
    \/ PipelineFailureTrends

Spec == Init /\ [][Next]_vars

---------------------------------------------------------------------------
(* The cell parser alone: one row whose pipeline cell is drawn from        *)
(* CellTexts, and extract_pipeline_results applied to it.                  *)

InitCell ==
    /\ raw_data \in CellSnapshots
    /\ op = "init"
    /\ args = [na |-> <<>>]
    /\ out = [status |-> "none"]

ExtractCell ==
    /\ op = "init"
    /\ op' = "extract_pipeline_results"
    /\ out' = [status |-> "ok",
               results |-> extract_pipeline_results(parse_test_data(raw_data), 1)]
    /\ UNCHANGED <<raw_data, args>>

NextCell == ExtractCell

SpecCell == InitCell /\ [][NextCell]_vars

---------------------------------------------------------------------------
(* Properties.                                                             *)

\* The frame of the snapshot of the call in progress.
Frame == parse_test_data(raw_data)
Called == op \notin {"init", "extract_pipeline_results"}
Built == Called /\ ~Frame.raised

\* The columns the snapshot itself brought: all but the derived parsed_date.
SourceColumns(df) == {c \in 1..Len(df.columns) : df.columns[c] # s_parsed_date}

\* The synthetic names of a frame.
SyntheticNames(df) ==
    {s_extra_col_ \o Decimal(k) : k \in 0..Len(df.columns)} \cap
    {df.columns[c] : c \in 1..Len(df.columns)}

\* The sum of f[n] for n in 1..k.
RECURSIVE SumTo(_, _)
SumTo(f, k) == IF k = 0 THEN 0 ELSE SumTo(f, k - 1) + f[k]

\* How many elements of seq satisfy the status test.
CountStatus(seq, status) ==
    Cardinality({n \in 1..Len(seq) : seq[n].status = Str(status)})

(* C1: for every snapshot with a header row, parse_test_data completes     *)
(* and yields one TestRun per non-header row (none for a header-only       *)
(* snapshot; missing cells absent when every data row is shorter than the  *)
(* header), so every query returns a result instead of raising.            *)
C1_BuildNeverRaises ==
    (Called /\ Len(raw_data) >= 1) =>
        /\ ~Frame.raised
        /\ Len(Frame.rows) = Len(raw_data) - 1
        /\ out.status # "raised"

\* The names Extract should give for row r: the non-reserved columns of the
\* snapshot whose cell is non-empty after trimming, in column order.
C2_ExpectedNames(df, r) ==
    LET pick == SelectSeq([c \in 1..Len(df.columns) |-> c],
                          LAMBDA c : /\ c \in SourceColumns(df)
                                     /\ c > ReservedColumns
                                     /\ df.rows[r][c].kind = "str"
                                     /\ strip(df.rows[r][c].s) # <<>>)
    IN [n \in 1..Len(pick) |-> df.columns[pick[n]]]

(* C2: for every TestRun produced by the build, dates that parse included, *)
(* Extract returns exactly one PipelineResult per non-reserved column      *)
(* whose cell is non-empty after trimming, in column order, and nothing    *)
(* else; a row whose only pipeline cell is "SUCCESS\nx86_64\nGinkgo"       *)
(* gives one result: SUCCESS, x86_64, Ginkgo, no test type, no reason.     *)
C2_OneResultPerPipelineCell ==
    Built =>
        \A r \in 1..Len(Frame.rows) :
            LET results == extract_pipeline_results(Frame, r) IN
            /\ [n \in 1..Len(results) |-> results[n].pipeline_name]
                   = C2_ExpectedNames(Frame, r)
            /\ (/\ Len(raw_data[r + 1]) = ReservedColumns + 1
                /\ raw_data[r + 1][ReservedColumns + 1] = c_success)
               => /\ Len(results) = 1
                  /\ results[1].status = Str(s_SUCCESS)
                  /\ results[1].architecture = Str(s_x86_64)
                  /\ results[1].framework = Str(s_Ginkgo)
                  /\ results[1].test_type = None
                  /\ results[1].failure_reason = None

(* C3: grouping the failure summary by reason, every FAILURE result with   *)
(* no failure reason is tallied under "No reason provided", so no key of   *)
(* the grouping is an absent value.                                        *)
C3_AbsentReasonUnderPlaceholder ==
    (op = "get_failure_summary" /\ args.group_by = "reason" /\ out.status = "ok") =>
        LET failures == AllFailures(Frame, Len(Frame.rows))
            absent == Cardinality({n \in 1..Len(failures) :
                                      failures[n].failure_reason = None})
        IN /\ \A n \in 1..Len(out.summary_data) : out.summary_data[n].key # None
           /\ absent > 0 =>
                /\ HasKey(out.summary_data, Str(s_No_reason_provided))
                /\ ValueOf(out.summary_data, Str(s_No_reason_provided)) = absent

(* C4: the synthetic extra columns are inert: Extract never returns a      *)
(* PipelineResult named after one, whatever the cell holds, and so no      *)
(* aggregation counts one (here: the summary by pipeline has no such key). *)
C4_ExtraColumnsInert ==
    Built =>
        /\ \A r \in 1..Len(Frame.rows) :
             LET results == extract_pipeline_results(Frame, r) IN
             \A n \in 1..Len(results) :
                 results[n].pipeline_name \notin SyntheticNames(Frame)
        /\ (op = "get_failure_summary" /\ args.group_by = "pipeline"
            /\ out.status = "ok") =>
             \A n \in 1..Len(out.summary_data) :
                 out.summary_data[n].key.s \notin SyntheticNames(Frame)

\* The trimmed lines of the cell the parser specification reads.
C5_Lines == LinesOf(strip(raw_data[2][ReservedColumns + 1]))

C5_IsStatus(line) == upper(line) \in {s_SUCCESS, s_FAILURE, s_FAILED, s_PASS, s_PASSED}
C5_IsCategory(line) ==
    \/ C5_IsStatus(line)
    \/ line \in {s_x86_64, s_aarch64, s_x86}
    \/ line \in {s_RobotFramework, s_Ginkgo}
    \/ \E w \in {s_install, s_upgrade, s_ostree, s_rpm, s_iso} : Contains(lower(line), w)

\* Line j (counted from 1) is captured: it is not the first line, it
\* matches no category, and status is FAILURE when it is read, that is, an
\* earlier line set it to FAILURE and no status line came between.
C5_Captured(lines, j) ==
    /\ j > 1
    /\ ~C5_IsCategory(lines[j])
    /\ \E k \in 1..(j - 1) :
          /\ upper(lines[k]) \in {s_FAILURE, s_FAILED}
          /\ \A m \in (k + 1)..(j - 1) : ~C5_IsStatus(lines[m])

(* C5: a line is captured as failureReason only if status was set to       *)
(* FAILURE by an earlier line of the scan (and is FAILURE when the line is *)
(* read), its index among the trimmed lines is greater than 0 and it       *)
(* matches none of the four categories; failureReason is the last such     *)
(* line, and absent when there is none.                                    *)
C5_ReasonIsLastCapturedLine ==
    (op = "extract_pipeline_results" /\ C5_Lines # <<>>) =>
        LET captured == {j \in 1..Len(C5_Lines) : C5_Captured(C5_Lines, j)} IN
        /\ Len(out.results) = 1
        /\ out.results[1].failure_reason =
               IF captured = {} THEN None ELSE Str(C5_Lines[MaxOf(captured)])

\* FAILURE, then two free-text lines: the second is the reason.
C5_Witness ==
    /\ op = "extract_pipeline_results"
    /\ Len(C5_Lines) = 3
    /\ C5_Lines[1] = s_FAILURE
    /\ C5_Captured(C5_Lines, 2)
    /\ C5_Captured(C5_Lines, 3)
    /\ C5_Lines[2] # C5_Lines[3]
    /\ out.results[1].failure_reason = Str(C5_Lines[3])

\* The failures of row r.
C6_Failures(r) == Failed(extract_pipeline_results(Frame, r))

(* C6: with limit = N, FailuresByVersion processes exactly the first       *)
(* min(N, size of the filtered set) rows of the filtered set, in row       *)
(* order, and never more than N: no failure of a later row is in any       *)
(* group, and rows without failures consume the limit too.                 *)
C6_LimitBoundsRowsScanned ==
    (op = "get_failed_pipelines_by_version" /\ out.status = "ok") =>
        LET size == Len(out.filtered_df)
            n == IF args.limit < size THEN args.limit ELSE size
            counts == [k \in 1..n |-> Len(C6_Failures(out.filtered_df[k]))]
            grouped == [g \in 1..Len(out.results) |-> out.results[g].value.total_failures]
        IN /\ out.rows_processed = n
           /\ out.rows_processed <= args.limit
           /\ out.scanned = SubSeq(out.filtered_df, 1, n)
           /\ SumTo(grouped, Len(grouped)) = SumTo(counts, n)
           /\ \A g \in 1..Len(out.results) :
                 /\ Len(out.results[g].value.failed_pipelines)
                       = out.results[g].value.total_failures
                 /\ \A p \in 1..out.results[g].value.total_failures :
                       \E k \in 1..n :
                          \E q \in 1..Len(C6_Failures(out.filtered_df[k])) :
                             C6_Failures(out.filtered_df[k])[q]
                                 = out.results[g].value.failed_pipelines[p]

\* The limit stops the scan before a row with failures, after a row
\* without any.
C6_Witness ==
    /\ op = "get_failed_pipelines_by_version"
    /\ out.status = "ok"
    /\ args.limit >= 1
    /\ Len(out.filtered_df) > args.limit
    /\ out.rows_processed = args.limit
    /\ out.results = <<>>
    /\ \E k \in (args.limit + 1)..Len(out.filtered_df) :
          C6_Failures(out.filtered_df[k]) # <<>>

\* The text of row r's version field as the comparison reads it.
C7_Version(r) == PyStr(RowAt(Frame, r, VersionPosition), args.na)
\* The rows of each side: version1 is tested first.
C7_Side1 == {r \in 1..Len(Frame.rows) : Contains(C7_Version(r), args.version1)}
C7_Side2 ==
    {r \in 1..Len(Frame.rows) :
        ~Contains(C7_Version(r), args.version1) /\ Contains(C7_Version(r), args.version2)}

\* What a side must hold when exactly the rows of S are tallied under it.
C7_Tallies(data, S) ==
    LET res == [r \in 1..Len(Frame.rows) |-> extract_pipeline_results(Frame, r)] IN
    /\ data.total_tests
         = SumTo([r \in 1..Len(Frame.rows) |-> IF r \in S THEN Len(res[r]) ELSE 0],
                 Len(Frame.rows))
    /\ data.failures
         = SumTo([r \in 1..Len(Frame.rows) |->
                    IF r \in S THEN CountStatus(res[r], s_FAILURE) ELSE 0],
                 Len(Frame.rows))
    /\ data.successes
         = SumTo([r \in 1..Len(Frame.rows) |->
                    IF r \in S THEN CountStatus(res[r], s_SUCCESS) ELSE 0],
                 Len(Frame.rows))

(* C7: VersionComparison assigns each row to at most one side, version1    *)
(* first: a row containing both arguments counts only under side 1, a row  *)
(* containing neither under no side; with identical arguments side 2 keeps *)
(* total, failures and successes at 0; a side with total 0 reports         *)
(* failureRate 0 and successRate 0.                                        *)
C7_OneSidePerRow ==
    (op = "get_version_comparison" /\ out.status = "ok") =>
        /\ C7_Tallies(out.version1_data, C7_Side1)
        /\ C7_Tallies(out.version2_data, C7_Side2)
        /\ args.version1 = args.version2 =>
              /\ out.version2_data.total_tests = 0
              /\ out.version2_data.failures = 0
              /\ out.version2_data.successes = 0
        /\ \A data \in {out.version1_data, out.version2_data} :
              data.total_tests = 0 =>
                  data.failure_rate.num = 0 /\ data.success_rate.num = 0

\* A row contains both (different) arguments and is counted under side 1
\* only; side 2 is empty with rate 0.
C7_Witness ==
    /\ op = "get_version_comparison"
    /\ out.status = "ok"
    /\ args.version1 # args.version2
    /\ \E r \in 1..Len(Frame.rows) :
          /\ Contains(C7_Version(r), args.version1)
          /\ Contains(C7_Version(r), args.version2)
          /\ extract_pipeline_results(Frame, r) # <<>>
    /\ out.version1_data.total_tests > 0
    /\ out.version2_data.total_tests = 0
    /\ out.version2_data.failure_rate.num = 0

\* Side 1's failure rate is strictly lower than side 2's, from the tallies:
\* failures / total * 100, and 0 for an empty side.
C8_StrictlyLower(d1, d2) ==
    IF d1.total_tests > 0 /\ d2.total_tests > 0
    THEN d1.failures * d2.total_tests < d2.failures * d1.total_tests
    ELSE IF d1.total_tests = 0 /\ d2.total_tests > 0 THEN d2.failures > 0
    ELSE FALSE

(* C8: VersionComparison reports version1 as the better performer when     *)
(* side 1's failure rate (failures/total*100, 0 when total is 0) is        *)
(* strictly lower than side 2's, and version2 in every other case, equal   *)
(* rates and two empty sides included.                                     *)
C8_BetterPerformer ==
    (op = "get_version_comparison" /\ out.status = "ok") =>
        /\ C8_StrictlyLower(out.version1_data, out.version2_data)
              => out.better_performer = args.version1
        /\ ~C8_StrictlyLower(out.version1_data, out.version2_data)
              => out.better_performer = args.version2

\* Two different arguments, both sides non-empty, side 1 strictly better.
C8_Witness ==
    /\ op = "get_version_comparison"
    /\ out.status = "ok"
    /\ args.version1 # args.version2
    /\ out.version1_data.total_tests > 0
    /\ out.version2_data.total_tests > 0
    /\ C8_StrictlyLower(out.version1_data, out.version2_data)
    /\ out.better_performer = args.version1

(* C9: a versionFilter restricts FailuresByVersion to exactly the rows     *)
(* whose version field contains it as a literal, case-sensitive substring, *)
(* for every filter ('.' and '+' included), the same rows that             *)
(* SearchFailureReasons keeps for that filter.                             *)
C9_LiteralSubstringFilter ==
    (/\ op = "get_failed_pipelines_by_version"
     /\ Truthy(args.version)
     /\ Built /\ ~empty(Frame)
     /\ IndexOf(s_MicroShift_version, Frame.columns) > 0) =>
        /\ out.status = "ok"
        /\ out.filtered_df =
              SelectSeq(AllRows(Frame),
                        LAMBDA r : Contains(PyStr(RowGet(Frame, r, s_MicroShift_version,
                                                         None), args.na),
                                            args.version.s))
        /\ out.filtered_df =
              search_failure_reasons(raw_data, <<>>, args.version, args.na).kept

(* C10: every PipelineResult with a failureReason has final status         *)
(* FAILURE, whatever the lines of the cell, a status line after the reason *)
(* line included.                                                          *)
C10_ReasonOnlyOnFailure ==
    op = "extract_pipeline_results" =>
        \A n \in 1..Len(out.results) :
            out.results[n].failure_reason # None
                => out.results[n].status = Str(s_FAILURE)

============================================================================
